---------------------------- MODULE Spec2Model ----------------------------
(***************************************************************************)
(* A model of the three programs of the repository.  Spec is one run of    *)
(* P1/source/computeStatistics.py, SpecConvert one run of                  *)
(* P2/source/convertNumbers.py and SpecWordCount one run of                *)
(* P3/source/wordCount.py; the variables of the programs that do not run   *)
(* stay at rest.  Text is modelled as sequences of one-character           *)
(* strings, so that strip() and the Decimal constructor work on the        *)
(* characters.  A Decimal is a record [k, c, e]: k = "fin" is the number   *)
(* c * 10^e (kept normalised, Decimal equality being numeric), k = "nan",  *)
(* "snan", "inf" (c = 1 or -1 is the sign) are the special values the      *)
(* constructor also produces.  A record whose k is an exception name is a  *)
(* raised exception, and k = "None" is Python's None.  Arithmetic rounds   *)
(* half-even to ModelPrec significant digits as the decimal context does.  *)
(***************************************************************************)
EXTENDS Integers, Sequences, FiniteSets, TLC

\* Longest input file, in lines.
MaxLines == 4

\* Significant digits of the decimal context in the model.  The program sets
\* getcontext().prec = 80 (line 36); the model runs the same arithmetic at a
\* precision TLC's integers can hold.
ModelPrec == 3

\* range(80) of sqrt_decimal.
MaxNewton == 80

USE_SAMPLE_VARIANCE == TRUE

-----------------------------------------------------------------------------
(* Decimal values *)

Exceptions ==
    {"InvalidOperation", "DivisionByZero", "ValueError", "TypeError", "IndexError"}

Dec(k, c, e) == [k |-> k, c |-> c, e |-> e]
Raise(name) == Dec(name, 0, 0)
None == Dec("None", 0, 0)
NaN == Dec("nan", 0, 0)
sNaN == Dec("snan", 0, 0)
Inf(s) == Dec("inf", s, 0)

IsExc(x) == x.k \in Exceptions
IsFin(x) == x.k = "fin"
IsNaN(x) == x.k \in {"nan", "snan"}

Abs(n) == IF n < 0 THEN -n ELSE n
Sign(n) == IF n < 0 THEN -1 ELSE 1

RECURSIVE Pow10(_)
Pow10(n) == IF n <= 0 THEN 1 ELSE 10 * Pow10(n - 1)

RECURSIVE NumDigits(_)
\* The number of decimal digits of n >= 0 (1 for 0).
NumDigits(n) == IF n < 10 THEN 1 ELSE 1 + NumDigits(n \div 10)

RECURSIVE Canon(_, _)
\* The finite Decimal c * 10^e, trailing zeros of the coefficient removed.
Canon(c, e) ==
    IF c = 0 THEN Dec("fin", 0, 0)
    ELSE IF c % 10 = 0 THEN Canon(c \div 10, e + 1)
    ELSE Dec("fin", c, e)

\* c * 10^e rounded half-even to ModelPrec significant digits
\* (the context's rounding, ROUND_HALF_EVEN).
DecRound(c, e) ==
    LET a == Abs(c)
        d == NumDigits(a) - ModelPrec
    IN  IF d <= 0 THEN Canon(c, e)
        ELSE LET q == a \div Pow10(d)
                 r == a % Pow10(d)
                 half == 5 * Pow10(d - 1)
                 up == r > half \/ (r = half /\ q % 2 = 1)
             IN  Canon(Sign(c) * (IF up THEN q + 1 ELSE q), e + d)

DecInt(n) == Canon(n, 0)

DecNeg(a) ==
    IF a.k \in {"fin", "inf"} THEN Dec(a.k, -a.c, a.e) ELSE a

\* Decimal.__add__ under the default context (InvalidOperation trapped).
DecAdd(a, b) ==
    IF IsExc(a) THEN a
    ELSE IF IsExc(b) THEN b
    ELSE IF a.k = "snan" \/ b.k = "snan" THEN Raise("InvalidOperation")
    ELSE IF a.k = "nan" \/ b.k = "nan" THEN NaN
    ELSE IF a.k = "inf" /\ b.k = "inf"
         THEN IF a.c = b.c THEN a ELSE Raise("InvalidOperation")
    ELSE IF a.k = "inf" THEN a
    ELSE IF b.k = "inf" THEN b
    ELSE LET e == IF a.e < b.e THEN a.e ELSE b.e
         IN  DecRound(a.c * Pow10(a.e - e) + b.c * Pow10(b.e - e), e)

DecSub(a, b) == DecAdd(a, DecNeg(b))

\* Decimal.__mul__.
DecMul(a, b) ==
    IF IsExc(a) THEN a
    ELSE IF IsExc(b) THEN b
    ELSE IF a.k = "snan" \/ b.k = "snan" THEN Raise("InvalidOperation")
    ELSE IF a.k = "nan" \/ b.k = "nan" THEN NaN
    ELSE IF a.k = "inf" \/ b.k = "inf"
         THEN IF a.c = 0 \/ b.c = 0 THEN Raise("InvalidOperation")
              ELSE Inf(Sign(a.c) * Sign(b.c))
    ELSE DecRound(a.c * b.c, a.e + b.e)

\* The quotient of two finite non-zero coefficients: the numerator is scaled
\* until the integer quotient has more than ModelPrec digits, and a non-zero
\* remainder is kept as one more (sticky) digit for the rounding.
DecDivFin(a, b) ==
    LET n == Abs(a.c)
        d == Abs(b.c)
        k == CHOOSE j \in 0..(2 * ModelPrec + 2) :
                 /\ n * Pow10(j) >= d * Pow10(ModelPrec)
                 /\ \A i \in 0..(j - 1) : n * Pow10(i) < d * Pow10(ModelPrec)
        q == (n * Pow10(k)) \div d
        r == (n * Pow10(k)) % d
        s == Sign(a.c) * Sign(b.c)
    IN  IF r = 0 THEN DecRound(s * q, a.e - b.e - k)
        ELSE DecRound(s * (10 * q + 1), a.e - b.e - k - 1)

\* Decimal.__truediv__.
DecDiv(a, b) ==
    IF IsExc(a) THEN a
    ELSE IF IsExc(b) THEN b
    ELSE IF a.k = "snan" \/ b.k = "snan" THEN Raise("InvalidOperation")
    ELSE IF a.k = "nan" \/ b.k = "nan" THEN NaN
    ELSE IF a.k = "inf" /\ b.k = "inf" THEN Raise("InvalidOperation")
    ELSE IF a.k = "inf" THEN Inf(Sign(a.c) * Sign(b.c))
    ELSE IF b.k = "inf" THEN Dec("fin", 0, 0)
    ELSE IF b.c = 0
         THEN IF a.c = 0 THEN Raise("InvalidOperation")
              ELSE Raise("DivisionByZero")
    ELSE IF a.c = 0 THEN Dec("fin", 0, 0)
    ELSE DecDivFin(a, b)

\* An ordering comparison (<, <=) with a NaN operand signals InvalidOperation.
CmpRaises(a, b) == IsNaN(a) \/ IsNaN(b)

\* a < b for two operands that are finite or infinite.
DecLt(a, b) ==
    IF a.k = "inf" /\ b.k = "inf" THEN a.c < b.c
    ELSE IF a.k = "inf" THEN a.c < 0
    ELSE IF b.k = "inf" THEN b.c > 0
    ELSE LET e == IF a.e < b.e THEN a.e ELSE b.e
         IN  a.c * Pow10(a.e - e) < b.c * Pow10(b.e - e)

\* a == b: numeric equality; a quiet NaN equals nothing, itself included.
DecEq(a, b) == a = b /\ ~IsNaN(a)

DecLe(a, b) == DecLt(a, b) \/ DecEq(a, b)

\* Decimal.adjusted(): the exponent of the most significant digit
\* (0 for the special values).
Adjusted(a) == IF IsFin(a) THEN a.e + NumDigits(Abs(a.c)) - 1 ELSE 0

\* Decimal(10) ** n for an integer n.
DecPow10(n) == Dec("fin", 1, n)

-----------------------------------------------------------------------------
(* Text: a string is a sequence of one-character strings *)

Whitespace == {" ", "\t", "\n", "\r"}

RECURSIVE lstrip(_)
lstrip(s) ==
    IF s # <<>> /\ Head(s) \in Whitespace THEN lstrip(Tail(s)) ELSE s

RECURSIVE rstrip(_)
rstrip(s) ==
    IF s # <<>> /\ s[Len(s)] \in Whitespace
    THEN rstrip(SubSeq(s, 1, Len(s) - 1)) ELSE s

\* str.strip()
strip(s) == rstrip(lstrip(s))

UpperCase == <<"A", "B", "C", "D", "E", "F", "G", "H", "I", "J", "K", "L", "M",
               "N", "O", "P", "Q", "R", "S", "T", "U", "V", "W", "X", "Y", "Z">>
LowerCase == <<"a", "b", "c", "d", "e", "f", "g", "h", "i", "j", "k", "l", "m",
               "n", "o", "p", "q", "r", "s", "t", "u", "v", "w", "x", "y", "z">>

LowerOf == [ch \in {UpperCase[i] : i \in 1..26} |->
               LowerCase[CHOOSE i \in 1..26 : UpperCase[i] = ch]]
Lower(ch) == IF ch \in DOMAIN LowerOf THEN LowerOf[ch] ELSE ch

DigitChars == <<"0", "1", "2", "3", "4", "5", "6", "7", "8", "9">>
DigitOf == [ch \in {DigitChars[i] : i \in 1..10} |->
               (CHOOSE i \in 1..10 : DigitChars[i] = ch) - 1]
IsDigit(ch) == ch \in DOMAIN DigitOf
DigitVal(ch) == DigitOf[ch]
AllDigits(s) == \A i \in 1..Len(s) : IsDigit(s[i])

RECURSIVE DigitsToInt(_)
DigitsToInt(s) ==
    IF s = <<>> THEN 0
    ELSE 10 * DigitsToInt(SubSeq(s, 1, Len(s) - 1)) + DigitVal(s[Len(s)])

\* The first index of ch in s, 0 when it does not occur.
IndexOf(s, ch) ==
    IF \E i \in 1..Len(s) : s[i] = ch
    THEN CHOOSE i \in 1..Len(s) : s[i] = ch /\ \A j \in 1..(i - 1) : s[j] # ch
    ELSE 0

HasPrefix(s, p) == Len(s) >= Len(p) /\ SubSeq(s, 1, Len(p)) = p
After(s, n) == SubSeq(s, n + 1, Len(s))

\* decimal-part [exponent-part] of the constructor's grammar, on the
\* lower-cased text after the sign; sg is the sign.  The value is exact:
\* the constructor does not round to the context's precision.
ParseNumber(sg, low) ==
    LET ei == IndexOf(low, "e")
        mant == IF ei = 0 THEN low ELSE SubSeq(low, 1, ei - 1)
        expo == IF ei = 0 THEN <<>> ELSE After(low, ei)
        di == IndexOf(mant, ".")
        ip == IF di = 0 THEN mant ELSE SubSeq(mant, 1, di - 1)
        fp == IF di = 0 THEN <<>> ELSE After(mant, di)
        esigned == expo # <<>> /\ expo[1] \in {"+", "-"}
        es == IF esigned /\ expo[1] = "-" THEN -1 ELSE 1
        ed == IF esigned THEN Tail(expo) ELSE expo
        valid == /\ AllDigits(ip) /\ AllDigits(fp)
                 /\ Len(ip) + Len(fp) > 0
                 /\ ei = 0 \/ (ed # <<>> /\ AllDigits(ed))
    IN  IF valid
        THEN Canon(sg * DigitsToInt(ip \o fp), es * DigitsToInt(ed) - Len(fp))
        ELSE Raise("InvalidOperation")

\* Decimal(raw) for a str: surrounding whitespace and underscores are
\* removed; then [sign] (Infinity | Inf | NaN[digits] | sNaN[digits] |
\* decimal-part [exponent-part]), letters in either case.  Anything else
\* signals InvalidOperation.  (The sign and the payload of a NaN are not kept.)
Decimal(raw) ==
    LET s == SelectSeq(strip(raw), LAMBDA ch : ch # "_")
        signed == s # <<>> /\ s[1] \in {"+", "-"}
        sg == IF signed /\ s[1] = "-" THEN -1 ELSE 1
        body == IF signed THEN Tail(s) ELSE s
        low == [i \in 1..Len(body) |-> Lower(body[i])]
    IN  IF low \in {<<"i", "n", "f">>, <<"i", "n", "f", "i", "n", "i", "t", "y">>}
        THEN Inf(sg)
        ELSE IF HasPrefix(low, <<"n", "a", "n">>) /\ AllDigits(After(low, 3))
        THEN NaN
        ELSE IF HasPrefix(low, <<"s", "n", "a", "n">>) /\ AllDigits(After(low, 4))
        THEN sNaN
        ELSE ParseNumber(sg, low)

try_parse_decimal(raw) ==
    LET number == Decimal(raw)
    IN  IF number.k \in {"InvalidOperation", "ValueError"} THEN None ELSE number

RECURSIVE read_loop_count(_, _, _)
\* A read loop that numbers the non-blank lines only.
read_loop_count(file, line_number, acc) ==
    IF line_number > Len(file) THEN acc
    ELSE LET raw == strip(file[line_number])
             number == try_parse_decimal(raw)
         IN  IF raw = <<>> THEN read_loop_count(file, line_number + 1, acc)
             ELSE IF number = None
             THEN read_loop_count(file, line_number + 1,
                      [acc EXCEPT !.total_items = @ + 1,
                                  !.invalid_items =
                                      Append(@, <<acc.total_items + 1, raw>>)])
             ELSE read_loop_count(file, line_number + 1,
                      [acc EXCEPT !.total_items = @ + 1,
                                  !.values = Append(@, number)])

RECURSIVE read_loop(_, _, _)
\* The for loop of read_numbers from line line_number on; acc holds values,
\* total_items and invalid_items so far.
read_loop(file, line_number, acc) ==
    IF line_number > Len(file) THEN acc
    ELSE LET raw == strip(file[line_number])
             number == try_parse_decimal(raw)
         IN  IF raw = <<>> THEN read_loop(file, line_number + 1, acc)
             ELSE IF number = None
             THEN read_loop(file, line_number + 1,
                      [acc EXCEPT !.total_items = @ + 1,
                                  !.invalid_items = Append(@, <<line_number, raw>>)])
             ELSE read_loop(file, line_number + 1,
                      [acc EXCEPT !.total_items = @ + 1,
                                  !.values = Append(@, number)])

read_numbers(file) ==
    read_loop(file, 1, [values |-> <<>>, total_items |-> 0, invalid_items |-> <<>>])

-----------------------------------------------------------------------------
(* The statistics.  A function that returns a list returns [exc, val]:      *)
(* exc = "" and the list in val, or the name of the exception it raised.    *)

Ok(v) == [exc |-> "", val |-> v]
Err(name) == [exc |-> name, val |-> <<>>]

RECURSIVE merge_loop(_, _, _, _, _)
\* The three while loops of merge; i and j are the 1-based positions of the
\* next elements of left and right.
merge_loop(left, right, i, j, merged) ==
    IF i <= Len(left) /\ j <= Len(right)
    THEN IF CmpRaises(left[i], right[j]) THEN Err("InvalidOperation")
         ELSE IF DecLe(left[i], right[j])
         THEN merge_loop(left, right, i + 1, j, Append(merged, left[i]))
         ELSE merge_loop(left, right, i, j + 1, Append(merged, right[j]))
    ELSE IF i <= Len(left)
    THEN merge_loop(left, right, i + 1, j, Append(merged, left[i]))
    ELSE IF j <= Len(right)
    THEN merge_loop(left, right, i, j + 1, Append(merged, right[j]))
    ELSE Ok(merged)

\* A merge whose result lacks its last element.
merge_short(left, right) ==
    LET r == merge_loop(left, right, 1, 1, <<>>)
    IN  IF r.exc # "" THEN r
        ELSE Ok(SubSeq(r.val, 1, Len(r.val) - 1))

merge(left, right) == merge_loop(left, right, 1, 1, <<>>)

RECURSIVE merge_sort_list(_)
\* merge_sort on the contents of the list.
merge_sort_list(vals) ==
    IF Len(vals) <= 1 THEN Ok(vals)
    ELSE LET mid == Len(vals) \div 2
             left == merge_sort_list(SubSeq(vals, 1, mid))
             right == merge_sort_list(SubSeq(vals, mid + 1, Len(vals)))
         IN  IF left.exc # "" THEN left
             ELSE IF right.exc # "" THEN right
             ELSE merge(left.val, right.val)

\* Lists are objects: h is the heap, a sequence of list contents, and a
\* reference is an index into it.  A slice, and merge's merged = [], make a
\* new list.
NewList(h, content) == [exc |-> "", heap |-> Append(h, content), ref |-> Len(h) + 1]

\* A merge_sort that hands back its argument when len(values) <= 1.
merge_sort_alias(h, ref) ==
    LET r == merge_sort_list(h[ref])
    IN  IF r.exc # "" THEN [exc |-> r.exc, heap |-> h, ref |-> 0]
        ELSE IF Len(h[ref]) <= 1 THEN [exc |-> "", heap |-> h, ref |-> ref]
        ELSE NewList(h, r.val)

\* merge_sort(values) as its caller sees it: the list ref is read, and the
\* result is a new list (values[:] in the base case, merged otherwise).  The
\* lists of the recursive calls are not reachable afterwards and are not kept.
merge_sort(h, ref) ==
    LET r == merge_sort_list(h[ref])
    IN  IF r.exc # "" THEN [exc |-> r.exc, heap |-> h, ref |-> 0]
        ELSE NewList(h, r.val)

RECURSIVE SumFrom(_, _, _)
\* total after the loop "for v in values: total += v" from position i on.
SumFrom(vals, i, total) ==
    IF i > Len(vals) THEN total
    ELSE SumFrom(vals, i + 1, DecAdd(total, vals[i]))

compute_mean(vals) == DecDiv(SumFrom(vals, 1, DecInt(0)), DecInt(Len(vals)))

\* compute_median that takes the upper middle element for an even length.
compute_median_upper(sorted) ==
    IF sorted = <<>> THEN Raise("IndexError")
    ELSE sorted[(Len(sorted) \div 2) + 1]

compute_median(sorted) ==
    LET n == Len(sorted)
        mid == n \div 2
    IN  IF n % 2 = 1 THEN sorted[mid + 1]
        ELSE IF n = 0 THEN Raise("IndexError")
        ELSE DecDiv(DecAdd(sorted[mid], sorted[mid + 1]), DecInt(2))

\* Whether b is the dict key a: equal hash and a == b.  Each parsed value is
\* an object of its own, and a quiet NaN equals no other object.
SameKey(a, b) == DecEq(a, b)

RECURSIVE count_loop(_, _, _)
\* The first loop of compute_mode from 0-based index idx on.  counts is the
\* dict counts joined with first_index, in insertion order: a sequence of
\* [v, c, first].  Hashing a signaling NaN raises TypeError.
count_loop(vals, idx, counts) ==
    IF idx >= Len(vals) THEN Ok(counts)
    ELSE LET v == vals[idx + 1]
             at == {p \in 1..Len(counts) : SameKey(counts[p].v, v)}
         IN  IF v.k = "snan" THEN Err("TypeError")
             ELSE IF at = {}
             THEN count_loop(vals, idx + 1,
                      Append(counts, [v |-> v, c |-> 1, first |-> idx]))
             ELSE LET p == CHOOSE q \in at : TRUE
                  IN  count_loop(vals, idx + 1, [counts EXCEPT ![p].c = @ + 1])

RECURSIVE select_loop(_, _, _)
\* The second loop of compute_mode over counts.items() from position p on;
\* best holds max_count, mode_value and mode_first_idx.
select_loop(counts, p, best) ==
    IF p > Len(counts) THEN best
    ELSE LET v == counts[p].v
             c == counts[p].c
         IN  IF c > best.max_count
             THEN select_loop(counts, p + 1,
                      [max_count |-> c, mode_value |-> v,
                       mode_first_idx |-> counts[p].first])
             ELSE IF c = best.max_count /\ c > 1 /\ counts[p].first < best.mode_first_idx
             THEN select_loop(counts, p + 1,
                      [best EXCEPT !.mode_value = v,
                                   !.mode_first_idx = counts[p].first])
             ELSE select_loop(counts, p + 1, best)

\* compute_mode that answers the first value when nothing repeats.
compute_mode_first(vals) ==
    LET counts == count_loop(vals, 0, <<>>)
        best == select_loop(counts.val, 1,
                    [max_count |-> 0, mode_value |-> None,
                     mode_first_idx |-> Len(vals) + 1])
    IN  IF counts.exc # "" THEN Raise(counts.exc) ELSE best.mode_value

compute_mode(vals) ==
    LET counts == count_loop(vals, 0, <<>>)
        best == select_loop(counts.val, 1,
                    [max_count |-> 0, mode_value |-> None,
                     mode_first_idx |-> Len(vals) + 1])
    IN  IF counts.exc # "" THEN Raise(counts.exc)
        ELSE IF best.max_count <= 1 THEN None
        ELSE best.mode_value

RECURSIVE newton(_, _, _)
\* The for loop of sqrt_decimal after n updates of guess: [guess, n] when it
\* ends (an exception in guess when the arithmetic raises).
newton(value, guess, n) ==
    IF n >= MaxNewton THEN [guess |-> guess, n |-> n]
    ELSE LET new_guess == DecDiv(DecAdd(guess, DecDiv(value, guess)), DecInt(2))
         IN  IF IsExc(new_guess) THEN [guess |-> new_guess, n |-> n]
             ELSE IF DecEq(new_guess, guess) THEN [guess |-> guess, n |-> n]
             ELSE newton(value, new_guess, n + 1)

\* [guess, n] of the call sqrt_decimal(value): its result and the number of
\* Newton-Raphson updates it made.
sqrt_run(value) ==
    IF CmpRaises(value, DecInt(0)) THEN [guess |-> Raise("InvalidOperation"), n |-> 0]
    ELSE IF DecLt(value, DecInt(0)) THEN [guess |-> Raise("ValueError"), n |-> 0]
    ELSE IF DecEq(value, DecInt(0)) THEN [guess |-> DecInt(0), n |-> 0]
    ELSE newton(value, DecPow10(Adjusted(value) \div 2), 0)

sqrt_decimal(value) == sqrt_run(value).guess

RECURSIVE SumSqFrom(_, _, _, _)
\* sum_sq after the loop "diff = v - mean_value; sum_sq += diff * diff" from
\* position i on.
SumSqFrom(vals, mean_value, i, sum_sq) ==
    IF i > Len(vals) THEN sum_sq
    ELSE LET diff == DecSub(vals[i], mean_value)
         IN  SumSqFrom(vals, mean_value, i + 1, DecAdd(sum_sq, DecMul(diff, diff)))

\* compute_variance that divides by n whatever the policy.
variance_always_n(policy, vals, mean_value) ==
    IF Len(vals) = 0 THEN DecInt(0)
    ELSE DecDiv(SumSqFrom(vals, mean_value, 1, DecInt(0)), DecInt(Len(vals)))

\* The body of compute_variance with the module constant USE_SAMPLE_VARIANCE
\* it reads as the parameter policy.
variance_under(policy, vals, mean_value) ==
    LET n == Len(vals)
        sum_sq == SumSqFrom(vals, mean_value, 1, DecInt(0))
    IN  IF n = 0 THEN DecInt(0)
        ELSE IF policy /\ n > 1 THEN DecDiv(sum_sq, DecInt(n - 1))
        ELSE DecDiv(sum_sq, DecInt(n))

compute_variance(vals, mean_value) ==
    variance_under(USE_SAMPLE_VARIANCE, vals, mean_value)

\* variance_pop of compute_sd_population, the argument of its sqrt_decimal.
variance_pop(vals, mean_value) ==
    DecDiv(SumSqFrom(vals, mean_value, 1, DecInt(0)), DecInt(Len(vals)))

compute_sd_population(vals, mean_value) ==
    LET v == variance_pop(vals, mean_value)
    IN  IF Len(vals) = 0 THEN DecInt(0)
        ELSE IF IsExc(v) THEN v
        ELSE sqrt_decimal(v)

-----------------------------------------------------------------------------
(* One run of main *)

\* The lines an input file is made of.
Tokens ==
    { <<>>,
      <<"1", "e", "1">>,
      <<"2", ".", "5">>,
      <<"-", "3">>,
      <<" ", "x", "y", "z">>,
      <<"N", "a", "N">>,
      <<"I", "n", "f", "i", "n", "i", "t", "y">> }

DecText1e1 == <<"1", "e", "1">>
DecText25 == <<"2", ".", "5">>
XyzText == <<" ", "x", "y", "z">>

Files == UNION {[1..n -> Tokens] : n \in 0..MaxLines}

VARIABLES
    argc,            \* len(sys.argv)
    exists,          \* input_path.exists()
    lines,           \* the lines of the input file
    pc,              \* the statement of main that runs next
    heap,            \* the list objects: a sequence of list contents
    values,          \* main's values: a reference into heap, 0 before the read
    sorted_values,   \* main's sorted_values: a reference into heap, 0 before the sort
    total_items,
    invalid_items,
    mean_value,
    median_value,
    mode_value,
    sd_value,
    variance_value,
    sqrt_calls,      \* [arg, n] of each sqrt_decimal call made so far
    called,          \* the statistics functions main has called so far
    report_data,     \* the StatsReport handed to build_report, None before
    rc,              \* main's return value, -1 while it runs
    exc              \* the exception that ended the run, "" if none

\* One run of P2/source/convertNumbers.py.
VARIABLES
    conv_pc,         \* the statement of convertNumbers.main that runs next
    conv_argc,       \* len(sys.argv)
    conv_found,      \* open(input_path) succeeds
    infile,          \* the lines of the input file not read yet
    item,            \* _run_conversion's item counter
    outfile,         \* the rows written so far
    conv_rc          \* main's return value, -1 while it runs

varsConvert == <<conv_pc, conv_argc, conv_found, infile, item, outfile, conv_rc>>

\* convertNumbers.py is not running.
ConvertIdle ==
    /\ conv_pc = "off"
    /\ conv_argc = 0
    /\ conv_found = FALSE
    /\ infile = <<>>
    /\ item = 0
    /\ outfile = <<>>
    /\ conv_rc = -1

\* One run of P3/source/wordCount.py.
VARIABLES
    wc_pc,           \* the statement of wordCount.main that runs next
    wc_argc,         \* len(sys.argv)
    wc_found,        \* open(input_path) succeeds
    stream,          \* the text of the input file
    frequencies,     \* the dict of count_frequencies: (word, count) in insertion order
    total_tokens,
    valid_words,
    invalid_tokens,
    items,           \* the list build_items_from_frequencies returns
    table,           \* the items handed to write_frequency_table, None before
    wc_rc            \* main's return value, -1 while it runs

varsWordCount == <<wc_pc, wc_argc, wc_found, stream, frequencies, total_tokens,
                   valid_words, invalid_tokens, items, table, wc_rc>>

\* wordCount.py is not running.
WordCountIdle ==
    /\ wc_pc = "off"
    /\ wc_argc = 0
    /\ wc_found = FALSE
    /\ stream = <<>>
    /\ frequencies = <<>>
    /\ total_tokens = 0
    /\ valid_words = 0
    /\ invalid_tokens = 0
    /\ items = <<>>
    /\ table = <<>>
    /\ wc_rc = -1

vars == <<argc, exists, lines, pc, heap, values, sorted_values, total_items,
          invalid_items, mean_value, median_value, mode_value, sd_value,
          variance_value, sqrt_calls, called, report_data, rc, exc>>

Init ==
    /\ argc \in {1, 2}
    /\ exists \in BOOLEAN
    /\ lines \in (IF argc = 2 /\ exists THEN Files ELSE {<<>>})
    /\ pc = "args"
    /\ heap = <<>>
    /\ values = 0
    /\ sorted_values = 0
    /\ total_items = 0
    /\ invalid_items = <<>>
    /\ mean_value = None
    /\ median_value = None
    /\ mode_value = None
    /\ sd_value = None
    /\ variance_value = None
    /\ sqrt_calls = <<>>
    /\ called = {}
    /\ report_data = None
    /\ rc = -1
    /\ exc = ""
    /\ ConvertIdle
    /\ WordCountIdle

\* computeStatistics.py is not running.
StatisticsIdle ==
    /\ argc = 0
    /\ exists = FALSE
    /\ lines = <<>>
    /\ pc = "off"
    /\ heap = <<>>
    /\ values = 0
    /\ sorted_values = 0
    /\ total_items = 0
    /\ invalid_items = <<>>
    /\ mean_value = None
    /\ median_value = None
    /\ mode_value = None
    /\ sd_value = None
    /\ variance_value = None
    /\ sqrt_calls = <<>>
    /\ called = {}
    /\ report_data = None
    /\ rc = -1
    /\ exc = ""

locals == <<heap, values, sorted_values, total_items, invalid_items, mean_value,
            median_value, mode_value, sd_value, variance_value>>

\* main, lines 319-321: the wrong number of arguments.
Usage ==
    /\ pc = "args"
    /\ argc # 2
    /\ pc' = "done"
    /\ rc' = 1
    /\ UNCHANGED <<varsConvert, varsWordCount, argc, exists, lines,
                   locals, sqrt_calls, called, report_data, exc>>

\* main, lines 325-327: the input file does not exist.
FileNotFound ==
    /\ pc = "args"
    /\ argc = 2
    /\ ~exists
    /\ pc' = "done"
    /\ rc' = 1
    /\ UNCHANGED <<varsConvert, varsWordCount, argc, exists, lines,
                   locals, sqrt_calls, called, report_data, exc>>

\* main, line 331: values, total_items, invalid_items = read_numbers(input_path).
ReadNumbers ==
    /\ pc = "args"
    /\ argc = 2
    /\ exists
    /\ LET r == read_numbers(lines)
           v == NewList(heap, r.values)
       IN  /\ heap' = v.heap
           /\ values' = v.ref
           /\ total_items' = r.total_items
           /\ invalid_items' = r.invalid_items
           /\ pc' = IF r.values = <<>> THEN "empty" ELSE "sort"
    /\ UNCHANGED <<varsConvert, varsWordCount, argc, exists, lines,
                   sorted_values, mean_value, median_value,
                   mode_value, sd_value, variance_value, sqrt_calls, called,
                   report_data, rc, exc>>

StatsReport(total, valid, invalid, mean, median, mode, sd, variance) ==
    [total_items |-> total, valid_items |-> valid, invalid_items |-> invalid,
     mean_value |-> mean, median_value |-> median, mode_value |-> mode,
     sd_value |-> sd, variance_value |-> variance,
     use_sample_variance |-> USE_SAMPLE_VARIANCE]

\* An empty-dataset report that holds zero for every statistic.
EmptyReportZero ==
    /\ pc = "empty"
    /\ report_data' = StatsReport(total_items, 0, invalid_items, DecInt(0),
                                  DecInt(0), DecInt(0), DecInt(0), DecInt(0))
    /\ rc' = 0
    /\ pc' = "done"
    /\ UNCHANGED <<varsConvert, varsWordCount, argc, exists, lines,
                   locals, sqrt_calls, called, exc>>

\* main, lines 332-355: no valid value; the report holds None for every
\* statistic.  (The report's text and the file it is appended to are not
\* modelled.)
EmptyReport ==
    /\ pc = "empty"
    /\ report_data' = StatsReport(total_items, 0, invalid_items,
                                  None, None, None, None, None)
    /\ rc' = 0
    /\ pc' = "done"
    /\ UNCHANGED <<varsConvert, varsWordCount, argc, exists, lines,
                   locals, sqrt_calls, called, exc>>

\* An exception no handler of main catches ends the run.
Abort(name) ==
    /\ pc' = "aborted"
    /\ exc' = name

\* main, line 357: sorted_values = merge_sort(values).
MergeSort ==
    /\ pc = "sort"
    /\ called' = called \cup {"merge_sort"}
    /\ LET r == merge_sort(heap, values)
       IN  IF r.exc # ""
           THEN Abort(r.exc) /\ UNCHANGED <<heap, sorted_values>>
           ELSE /\ heap' = r.heap
                /\ sorted_values' = r.ref
                /\ pc' = "mean"
                /\ exc' = exc
    /\ UNCHANGED <<varsConvert, varsWordCount, argc, exists, lines,
                   values, total_items, invalid_items,
                   mean_value, median_value, mode_value, sd_value, variance_value,
                   sqrt_calls, report_data, rc>>

\* main, line 358: mean_value = compute_mean(values).
ComputeMean ==
    /\ pc = "mean"
    /\ called' = called \cup {"compute_mean"}
    /\ LET r == compute_mean(heap[values])
       IN  IF IsExc(r)
           THEN Abort(r.k) /\ UNCHANGED mean_value
           ELSE /\ mean_value' = r
                /\ pc' = "median"
                /\ exc' = exc
    /\ UNCHANGED <<varsConvert, varsWordCount, argc, exists, lines,
                   heap, values, sorted_values, total_items,
                   invalid_items, median_value, mode_value, sd_value,
                   variance_value, sqrt_calls, report_data, rc>>

\* main, line 359: median_value = compute_median(sorted_values).
ComputeMedian ==
    /\ pc = "median"
    /\ called' = called \cup {"compute_median"}
    /\ LET r == compute_median(heap[sorted_values])
       IN  IF IsExc(r)
           THEN Abort(r.k) /\ UNCHANGED median_value
           ELSE /\ median_value' = r
                /\ pc' = "mode"
                /\ exc' = exc
    /\ UNCHANGED <<varsConvert, varsWordCount, argc, exists, lines,
                   heap, values, sorted_values, total_items,
                   invalid_items, mean_value, mode_value, sd_value,
                   variance_value, sqrt_calls, report_data, rc>>

\* main, line 360: mode_value = compute_mode(values).
ComputeMode ==
    /\ pc = "mode"
    /\ called' = called \cup {"compute_mode"}
    /\ LET r == compute_mode(heap[values])
       IN  IF IsExc(r)
           THEN Abort(r.k) /\ UNCHANGED mode_value
           ELSE /\ mode_value' = r
                /\ pc' = "sd"
                /\ exc' = exc
    /\ UNCHANGED <<varsConvert, varsWordCount, argc, exists, lines,
                   heap, values, sorted_values, total_items,
                   invalid_items, mean_value, median_value, sd_value,
                   variance_value, sqrt_calls, report_data, rc>>

\* main, line 362: sd_value = compute_sd_population(values, mean_value).
\* sqrt_decimal is called unless computing variance_pop raised.
ComputeSd ==
    /\ pc = "sd"
    /\ called' = called \cup {"compute_sd_population"}
    /\ LET arg == variance_pop(heap[values], mean_value)
           r == compute_sd_population(heap[values], mean_value)
       IN  /\ sqrt_calls' = IF IsExc(arg) THEN sqrt_calls
                            ELSE Append(sqrt_calls, [arg |-> arg, n |-> sqrt_run(arg).n])
           /\ IF IsExc(r)
              THEN Abort(r.k) /\ UNCHANGED sd_value
              ELSE /\ sd_value' = r
                   /\ pc' = "variance"
                   /\ exc' = exc
    /\ UNCHANGED <<varsConvert, varsWordCount, argc, exists, lines,
                   heap, values, sorted_values, total_items,
                   invalid_items, mean_value, median_value, mode_value,
                   variance_value, report_data, rc>>

\* main, line 363: variance_value = compute_variance(values, mean_value).
ComputeVariance ==
    /\ pc = "variance"
    /\ called' = called \cup {"compute_variance"}
    /\ LET r == compute_variance(heap[values], mean_value)
       IN  IF IsExc(r)
           THEN Abort(r.k) /\ UNCHANGED variance_value
           ELSE /\ variance_value' = r
                /\ pc' = "report"
                /\ exc' = exc
    /\ UNCHANGED <<varsConvert, varsWordCount, argc, exists, lines,
                   heap, values, sorted_values, total_items,
                   invalid_items, mean_value, median_value, mode_value, sd_value,
                   sqrt_calls, report_data, rc>>

\* main, lines 365-390: the report of the computed statistics.
Report ==
    /\ pc = "report"
    /\ report_data' = StatsReport(total_items, Len(heap[values]), invalid_items,
                                  mean_value, median_value, mode_value,
                                  sd_value, variance_value)
    /\ rc' = 0
    /\ pc' = "done"
    /\ UNCHANGED <<varsConvert, varsWordCount, argc, exists, lines,
                   locals, sqrt_calls, called, exc>>

Next ==
    \/ Usage
    \/ FileNotFound
    \/ ReadNumbers
    \/ EmptyReport
    \/ MergeSort
    \/ ComputeMean
    \/ ComputeMedian
    \/ ComputeMode
    \/ ComputeSd
    \/ ComputeVariance
    \/ Report

\* The variables of the three programs.
allVars == <<vars, varsConvert, varsWordCount>>

Spec == Init /\ [][Next]_allVars

-----------------------------------------------------------------------------
(* P2/source/convertNumbers.py.  Python's integers are unbounded; an integer *)
(* is modelled as a record [hi, lo] that stands for hi * Limb + lo with     *)
(* 0 <= lo < Limb (hi < 0 for a negative integer), so that 1 << 32 and the  *)
(* integers around it are computed without overflow.                        *)

Limb == 2^16

BigInt(hi, lo) == [hi |-> hi, lo |-> lo]

\* The integer n.
IntOf(n) == BigInt(n \div Limb, n % Limb)

IsZero(a) == a.hi = 0 /\ a.lo = 0
IsNegative(a) == a.hi < 0
IsPositive(a) == a.hi > 0 \/ (a.hi = 0 /\ a.lo > 0)

\* a + b
IntAdd(a, b) ==
    LET lo == a.lo + b.lo
    IN  BigInt(a.hi + b.hi + lo \div Limb, lo % Limb)

\* -a
IntNeg(a) ==
    IF a.lo = 0 THEN BigInt(-a.hi, 0) ELSE BigInt(-a.hi - 1, Limb - a.lo)

\* abs(a)
IntAbs(a) == IF IsNegative(a) THEN IntNeg(a) ELSE a

\* a % b and a // b for an integer a and a small b > 0 (Python's floor
\* division: the remainder is never negative).
IntMod(a, b) == ((a.hi % b) * Limb + a.lo) % b
IntFloorDiv(a, b) == BigInt(a.hi \div b, ((a.hi % b) * Limb + a.lo) \div b)

\* a * m + d for a >= 0 and small m, d >= 0.
IntTimesPlus(a, m, d) ==
    LET lo == a.lo * m + d
    IN  BigInt(a.hi * m + lo \div Limb, lo % Limb)

\* 1 << bits (Limb is 1 << 16).
ShiftLeftOne(bits) ==
    IF bits < 16 THEN BigInt(0, 2^bits) ELSE BigInt(2^(bits - 16), 0)

RECURSIVE bit_length(_)
\* int.bit_length() of a >= 0.
bit_length(a) == IF IsZero(a) THEN 0 ELSE 1 + bit_length(IntFloorDiv(a, 2))

HEX_DIGITS == <<"0", "1", "2", "3", "4", "5", "6", "7", "8", "9",
                "A", "B", "C", "D", "E", "F">>

Reverse(s) == [i \in 1..Len(s) |-> s[Len(s) + 1 - i]]

RECURSIVE to_base_loop(_, _, _)
\* to_base_string, lines 52-55: the digits, least significant first.
to_base_loop(current, base, digits) ==
    IF IsPositive(current)
    THEN to_base_loop(IntFloorDiv(current, base), base,
                      Append(digits, HEX_DIGITS[IntMod(current, base) + 1]))
    ELSE digits

to_base_string(value, base) ==
    IF IsZero(value) THEN <<"0">>
    ELSE Reverse(to_base_loop(value, base, <<>>))

int_to_binary(value) ==
    IF ~IsNegative(value) THEN to_base_string(value, 2)
    ELSE LET abs_val == IntAbs(value)
             bits == bit_length(abs_val) + 1
             unsigned == IntAdd(ShiftLeftOne(bits), value)
         IN  to_base_string(unsigned, 2)

RECURSIVE pad_hex(_)
\* int_to_hex, lines 86-87.
pad_hex(hex_str) ==
    IF Len(hex_str) < 8 THEN pad_hex(<<"0">> \o hex_str) ELSE hex_str

int_to_hex(value) ==
    IF ~IsNegative(value) THEN to_base_string(value, 16)
    ELSE LET unsigned == IntAdd(ShiftLeftOne(32), value)
         IN  pad_hex(to_base_string(unsigned, 16))

\* What safe_parse_int returns: an integer, or None.
SomeInt(v) == [none |-> FALSE, val |-> v]
NoInt == [none |-> TRUE, val |-> IntOf(0)]

\* The digits of an int() literal: decimal digits, single underscores allowed
\* between them.
IsIntBody(s) ==
    /\ s # <<>>
    /\ \A i \in 1..Len(s) : IsDigit(s[i]) \/ s[i] = "_"
    /\ IsDigit(s[1]) /\ IsDigit(s[Len(s)])
    /\ \A i \in 1..(Len(s) - 1) : ~(s[i] = "_" /\ s[i + 1] = "_")

RECURSIVE IntBodyValue(_, _)
IntBodyValue(s, acc) ==
    IF s = <<>> THEN acc
    ELSE IF Head(s) = "_" THEN IntBodyValue(Tail(s), acc)
    ELSE IntBodyValue(Tail(s), IntTimesPlus(acc, 10, DigitVal(Head(s))))

\* int(text) in base 10: NoInt stands for the ValueError it raises.
int(text) ==
    LET t == strip(text)
        signed == t # <<>> /\ Head(t) \in {"+", "-"}
        body == IF signed THEN Tail(t) ELSE t
        n == IntBodyValue(body, IntOf(0))
    IN  IF ~IsIntBody(body) THEN NoInt
        ELSE SomeInt(IF signed /\ Head(t) = "-" THEN IntNeg(n) ELSE n)

safe_parse_int(raw) ==
    LET text == strip(raw)
    IN  IF text = <<>> THEN NoInt ELSE int(text)

\* Longest input file of convertNumbers.py, in lines.
MaxConvertLines == 2

\* The lines an input file of convertNumbers.py is made of.
ConvertTokens ==
    { <<>>,
      <<"0">>,
      <<"2", "5", "5">>,
      <<"4", "2", "9", "4", "9", "6", "7", "2", "9", "6">>,
      <<"-", "1">>,
      <<"-", "3">>,
      <<"-", "8">>,
      <<"-", "2", "5", "5">>,
      <<"-", "2", "1", "4", "7", "4", "8", "3", "6", "4", "8">>,
      <<"-", "4", "2", "9", "4", "9", "6", "7", "2", "9", "6">>,
      <<"-", "4", "2", "9", "4", "9", "6", "7", "2", "9", "7">>,
      <<" ", "+", "1", "2">>,
      <<"1", "_", "0">>,
      <<"a", "b", "c">> }

ConvertFiles == UNION {[1..n -> ConvertTokens] : n \in 0..MaxConvertLines}

InitConvert ==
    /\ conv_pc = "args"
    /\ conv_argc \in {1, 2}
    /\ conv_found \in BOOLEAN
    /\ infile \in (IF conv_argc = 2 /\ conv_found THEN ConvertFiles ELSE {<<>>})
    /\ item = 0
    /\ outfile = <<>>
    /\ conv_rc = -1
    /\ StatisticsIdle
    /\ WordCountIdle

\* main, lines 179-183: the wrong number of arguments.
ConvertUsage ==
    /\ conv_pc = "args"
    /\ conv_argc # 2
    /\ conv_pc' = "done"
    /\ conv_rc' = 2
    /\ UNCHANGED <<vars, varsWordCount, conv_argc, conv_found, infile, item, outfile>>

\* process_file, lines 151 and 166-168: the input file cannot be opened.
ConvertFileNotFound ==
    /\ conv_pc = "args"
    /\ conv_argc = 2
    /\ ~conv_found
    /\ conv_pc' = "done"
    /\ conv_rc' = 2
    /\ UNCHANGED <<vars, varsWordCount, conv_argc, conv_found, infile, item, outfile>>

\* process_file, lines 151-158, and _run_conversion, lines 118-122: the files
\* are open and the headers written.  (The header lines, the blank line
\* between runs and the elapsed time are not modelled.)
ConvertOpen ==
    /\ conv_pc = "args"
    /\ conv_argc = 2
    /\ conv_found
    /\ conv_pc' = "loop"
    /\ item' = 0
    /\ UNCHANGED <<vars, varsWordCount, conv_argc, conv_found, infile, outfile, conv_rc>>

InvalidRow(n, raw_stripped) ==
    [kind |-> "invalid", item |-> n, raw |-> raw_stripped, number |-> IntOf(0),
     bin_str |-> <<>>, hex_str |-> <<>>]

Row(n, raw_stripped, number) ==
    [kind |-> "row", item |-> n, raw |-> raw_stripped, number |-> number,
     bin_str |-> int_to_binary(number), hex_str |-> int_to_hex(number)]

\* _run_conversion, lines 123-142: one pass of the loop over the lines.
RunConversion ==
    /\ conv_pc = "loop"
    /\ infile # <<>>
    /\ infile' = Tail(infile)
    /\ LET raw_stripped == strip(Head(infile))
           number == safe_parse_int(raw_stripped)
       IN  IF raw_stripped = <<>>
           THEN UNCHANGED <<item, outfile>>
           ELSE /\ item' = item + 1
                /\ outfile' = Append(outfile,
                                     IF number.none
                                     THEN InvalidRow(item + 1, raw_stripped)
                                     ELSE Row(item + 1, raw_stripped, number.val))
    /\ UNCHANGED <<vars, varsWordCount, conv_pc, conv_argc, conv_found, conv_rc>>

\* process_file, lines 161-174: the input is exhausted.
ConvertDone ==
    /\ conv_pc = "loop"
    /\ infile = <<>>
    /\ conv_pc' = "done"
    /\ conv_rc' = 0
    /\ UNCHANGED <<vars, varsWordCount, conv_argc, conv_found, infile, item, outfile>>

NextConvert ==
    \/ ConvertUsage
    \/ ConvertFileNotFound
    \/ ConvertOpen
    \/ RunConversion
    \/ ConvertDone

SpecConvert == InitConvert /\ [][NextConvert]_allVars

-----------------------------------------------------------------------------
(* P3/source/wordCount.py.  A (word, count) pair is the tuple <<word, count>>; *)
(* the dict frequencies is the sequence of its pairs in insertion order.      *)

\* str.isspace() and str.isalpha() on the characters of the model.
isspace(ch) == ch \in Whitespace
isalpha(ch) == ch \in DOMAIN LowerOf \/ ch \in {LowerCase[i] : i \in 1..26}

RECURSIVE iter_tokens_loop(_, _, _)
\* iter_tokens, lines 72-86: the tokens yielded so far and the buffer.  (The
\* stream is read in chunks that the buffer outlives, so the chunks do not
\* show in what is yielded.)
iter_tokens_loop(chars, buffer, yielded) ==
    IF chars = <<>>
    THEN IF buffer # <<>> THEN Append(yielded, buffer) ELSE yielded
    ELSE IF isspace(Head(chars))
         THEN IF buffer # <<>>
              THEN iter_tokens_loop(Tail(chars), <<>>, Append(yielded, buffer))
              ELSE iter_tokens_loop(Tail(chars), buffer, yielded)
         ELSE iter_tokens_loop(Tail(chars), Append(buffer, Head(chars)), yielded)

iter_tokens(text) == iter_tokens_loop(text, <<>>, <<>>)

\* str.lower()
lower(token) == [i \in 1..Len(token) |-> Lower(token[i])]

\* normalize_word returns (is_valid, normalized_word).
normalize_word(token) ==
    IF token = <<>> THEN <<FALSE, <<>>>>
    ELSE IF \E i \in 1..Len(token) : ~isalpha(token[i]) THEN <<FALSE, token>>
    ELSE <<TRUE, lower(token)>>

\* The code point order of the lower-case letters.
Ord(ch) == CHOOSE i \in 1..26 : LowerCase[i] = ch

RECURSIVE StrLess(_, _)
\* a < b for two strings: the lexicographic order of str.
StrLess(a, b) ==
    IF b = <<>> THEN FALSE
    ELSE IF a = <<>> THEN TRUE
    ELSE IF Head(a) = Head(b) THEN StrLess(Tail(a), Tail(b))
    ELSE Ord(Head(a)) < Ord(Head(b))

\* word in frequencies
HasKey(freq, word) == \E i \in 1..Len(freq) : freq[i][1] = word
KeyIndex(freq, word) == CHOOSE i \in 1..Len(freq) : freq[i][1] = word

RECURSIVE count_loop_words(_, _)
\* count_frequencies, lines 155-168, over the tokens not yet counted.
count_loop_words(tokens, acc) ==
    IF tokens = <<>> THEN acc
    ELSE LET token == Head(tokens)
             norm == normalize_word(token)
             word == norm[2]
             counted == [acc EXCEPT !.total_tokens = @ + 1]
             freq == acc.frequencies
             k == KeyIndex(freq, word)
         IN  IF ~norm[1]
             THEN count_loop_words(Tail(tokens),
                      [counted EXCEPT !.invalid_tokens = @ + 1])
             ELSE count_loop_words(Tail(tokens),
                      [counted EXCEPT
                          !.valid_words = @ + 1,
                          !.frequencies =
                              IF HasKey(freq, word)
                              THEN [freq EXCEPT ![k] = <<word, freq[k][2] + 1>>]
                              ELSE Append(freq, <<word, 1>>)])

count_frequencies(text) ==
    count_loop_words(iter_tokens(text),
                     [frequencies |-> <<>>, total_tokens |-> 0, valid_words |-> 0,
                      invalid_tokens |-> 0])

\* build_items_from_frequencies: a list of the dict's pairs, in its order.
build_items_from_frequencies(freq) == [i \in 1..Len(freq) |-> freq[i]]

\* A should_move that compares the counts only.
should_move_by_count(cur_word, cur_count, key_word, key_count) ==
    cur_count < key_count

\* insertion_sort_by_count_desc, lines 119-121.
should_move(cur_word, cur_count, key_word, key_count) ==
    \/ cur_count < key_count
    \/ (cur_count = key_count /\ StrLess(key_word, cur_word))

RECURSIVE shift_loop(_, _, _, _)
\* insertion_sort_by_count_desc, lines 117-125: the inner loop; position is
\* the index into the list, counted from 1.
shift_loop(list, position, key_word, key_count) ==
    IF position >= 1 /\ should_move(list[position][1], list[position][2],
                                    key_word, key_count)
    THEN shift_loop([list EXCEPT ![position + 1] = list[position]],
                    position - 1, key_word, key_count)
    ELSE [items |-> list, position |-> position]

RECURSIVE insertion_loop(_, _)
\* insertion_sort_by_count_desc, lines 113-128: the outer loop.
insertion_loop(list, index) ==
    IF index <= Len(list)
    THEN LET key == list[index]
             r == shift_loop(list, index - 1, key[1], key[2])
         IN  insertion_loop([r.items EXCEPT ![r.position + 1] = key], index + 1)
    ELSE list

\* The content of the list after insertion_sort_by_count_desc(list).
insertion_sort_by_count_desc(list) == insertion_loop(list, 2)

\* Most whitespace-separated pieces of an input file of wordCount.py.
MaxPieces == 4

\* The pieces an input file of wordCount.py is made of; the empty piece makes
\* two separators meet.
Pieces ==
    { <<>>, <<"a">>, <<"b">>, <<"a", "b">>, <<"c">>, <<"B">>, <<"a", "1">> }

RECURSIVE Join(_)
\* The pieces, a separator between each two: a blank, or a newline after
\* every second piece.
Join(ps) ==
    IF ps = <<>> THEN <<>>
    ELSE IF Len(ps) = 1 THEN ps[1]
    ELSE Join(SubSeq(ps, 1, Len(ps) - 1))
             \o <<IF Len(ps) % 2 = 1 THEN "\n" ELSE " ">> \o ps[Len(ps)]

WordFiles == {Join(ps) : ps \in UNION {[1..n -> Pieces] : n \in 0..MaxPieces}}

InitWordCount ==
    /\ wc_pc = "args"
    /\ wc_argc \in {1, 2}
    /\ wc_found \in BOOLEAN
    /\ stream \in (IF wc_argc = 2 /\ wc_found THEN WordFiles ELSE {<<>>})
    /\ frequencies = <<>>
    /\ total_tokens = 0
    /\ valid_words = 0
    /\ invalid_tokens = 0
    /\ items = <<>>
    /\ table = <<>>
    /\ wc_rc = -1
    /\ StatisticsIdle
    /\ ConvertIdle

wcLocals == <<frequencies, total_tokens, valid_words, invalid_tokens, items, table>>

\* main, lines 241-245: the wrong number of arguments.
WordCountUsage ==
    /\ wc_pc = "args"
    /\ wc_argc # 2
    /\ wc_pc' = "done"
    /\ wc_rc' = 2
    /\ UNCHANGED <<vars, varsConvert, wc_argc, wc_found, stream, wcLocals>>

\* process_file, lines 205 and 228-230: the input file cannot be opened.
WordCountFileNotFound ==
    /\ wc_pc = "args"
    /\ wc_argc = 2
    /\ ~wc_found
    /\ wc_pc' = "done"
    /\ wc_rc' = 2
    /\ UNCHANGED <<vars, varsConvert, wc_argc, wc_found, stream, wcLocals>>

\* process_file, lines 205-212: the files are open, the header is written and
\* count_frequencies has returned.  (The header and the lines that report the
\* ignored tokens are not modelled.)
CountFrequencies ==
    /\ wc_pc = "args"
    /\ wc_argc = 2
    /\ wc_found
    /\ LET r == count_frequencies(stream)
       IN  /\ frequencies' = r.frequencies
           /\ total_tokens' = r.total_tokens
           /\ valid_words' = r.valid_words
           /\ invalid_tokens' = r.invalid_tokens
    /\ wc_pc' = "build"
    /\ UNCHANGED <<vars, varsConvert, wc_argc, wc_found, stream, items, table, wc_rc>>

\* process_file, line 214: items = build_items_from_frequencies(frequencies).
BuildItems ==
    /\ wc_pc = "build"
    /\ items' = build_items_from_frequencies(frequencies)
    /\ wc_pc' = "sort"
    /\ UNCHANGED <<vars, varsConvert, wc_argc, wc_found, stream, frequencies,
                   total_tokens, valid_words, invalid_tokens, table, wc_rc>>

\* process_file, line 215: insertion_sort_by_count_desc(items) rearranges the
\* list that items names.
InsertionSort ==
    /\ wc_pc = "sort"
    /\ items' = insertion_sort_by_count_desc(items)
    /\ wc_pc' = "write"
    /\ UNCHANGED <<vars, varsConvert, wc_argc, wc_found, stream, frequencies,
                   total_tokens, valid_words, invalid_tokens, table, wc_rc>>

\* process_file, lines 216-236: the frequency table and the summary are
\* written.
WriteTable ==
    /\ wc_pc = "write"
    /\ table' = items
    /\ wc_rc' = 0
    /\ wc_pc' = "done"
    /\ UNCHANGED <<vars, varsConvert, wc_argc, wc_found, stream, frequencies,
                   total_tokens, valid_words, invalid_tokens, items>>

NextWordCount ==
    \/ WordCountUsage
    \/ WordCountFileNotFound
    \/ CountFrequencies
    \/ BuildItems
    \/ InsertionSort
    \/ WriteTable

SpecWordCount == InitWordCount /\ [][NextWordCount]_allVars

-----------------------------------------------------------------------------
(* Properties *)

\* The number of positions of s that hold x.
Count(x, s) == Cardinality({i \in 1..Len(s) : s[i] = x})

IsPermutation(a, b) ==
    /\ Len(a) = Len(b)
    /\ \A i \in 1..Len(a) : Count(a[i], a) = Count(a[i], b)

NonDecreasing(a) == \A i \in 1..(Len(a) - 1) : DecLe(a[i], a[i + 1])

RECURSIVE LineInfo(_)
\* For each line of the file its stripped text and what try_parse_decimal
\* makes of it.
LineInfo(file) ==
    IF file = <<>> THEN <<>>
    ELSE <<[raw |-> strip(Head(file)),
            number |-> try_parse_decimal(strip(Head(file)))]>> \o LineInfo(Tail(file))

NonBlank(info) == info.raw # <<>>
Accepted(info) == NonBlank(info) /\ info.number # None
Rejected(info) == NonBlank(info) /\ info.number = None

\* The positions of s that satisfy Test, in increasing order.
Positions(s, Test(_)) ==
    SelectSeq([i \in 1..Len(s) |-> i], LAMBDA i : Test(s[i]))

\* The accepted lines' values, in file order.
FileOrderValues ==
    LET info == LineInfo(lines)
        at == Positions(info, Accepted)
    IN  [k \in 1..Len(at) |-> info[at[k]].number]

\* The rejected lines as (line number, stripped text), in file order.
FileOrderInvalid ==
    LET info == LineInfo(lines)
        at == Positions(info, Rejected)
    IN  [k \in 1..Len(at) |-> <<at[k], info[at[k]].raw>>]

HasRead == values # 0
Sorted == sorted_values # 0

\* The order of main's calls; a call has returned when the run did not abort
\* or a later call was made.
CallOrder == <<"merge_sort", "compute_mean", "compute_median", "compute_mode",
               "compute_sd_population", "compute_variance">>
Returned(f) ==
    /\ f \in called
    /\ \/ pc # "aborted"
       \/ \E i, j \in 1..Len(CallOrder) :
              CallOrder[i] = f /\ i < j /\ CallOrder[j] \in called

\* C1: merge_sort returns a permutation of its input (same length, same
\* multiset of values) that is non-decreasing: out[i] <= out[i+1] for every
\* adjacent pair.
C1_MergeSortSortedPermutation ==
    Returned("merge_sort") =>
        /\ Sorted
        /\ Len(heap[sorted_values]) = Len(heap[values])
        /\ IsPermutation(heap[sorted_values], heap[values])
        /\ NonDecreasing(heap[sorted_values])

\* C1 witness: a four-element input with a repeated value that was not in
\* order has been sorted.
C1_Witness ==
    /\ Returned("merge_sort")
    /\ Len(heap[values]) = 4
    /\ ~NonDecreasing(heap[values])
    /\ \E i, j \in 1..4 : i < j /\ heap[values][i] = heap[values][j]

\* C2: read_numbers classifies each line once: a line that strips to empty is
\* counted nowhere, every other line increments total_items and goes either
\* to values or to invalid_items; len(invalid_items) + len(values) ==
\* total_items == the number of non-blank lines; values keeps file order and
\* invalid_items holds (1-based physical line number, stripped text) pairs in
\* encounter order, the line number counting blank lines too.
C2_ReadClassifiesEachLineOnce ==
    HasRead =>
        /\ total_items = Len(Positions(LineInfo(lines), NonBlank))
        /\ Len(invalid_items) + Len(heap[values]) = total_items
        /\ heap[values] = FileOrderValues
        /\ invalid_items = FileOrderInvalid
        /\ lines = <<DecText1e1, XyzText, <<>>, DecText25>> =>
               /\ heap[values] = <<DecInt(10), Dec("fin", 25, -1)>>
               /\ invalid_items = <<(<<2, <<"x", "y", "z">> >>)>>
               /\ total_items = 3

\* C2 witness: a file with a valid line, an invalid line, a blank line and
\* another valid line has been read.
C2_Witness ==
    /\ HasRead
    /\ lines = <<DecText1e1, XyzText, <<>>, DecText25>>


\* The number of occurrences in s of the value at position i.  Every list
\* element is an object of its own, and a NaN equals no other object.
Occ(s, i) == Cardinality({j \in 1..Len(s) : j = i \/ DecEq(s[j], s[i])})

MaxOcc(s) ==
    IF s = <<>> THEN 0
    ELSE CHOOSE m \in 1..Len(s) :
             /\ \E i \in 1..Len(s) : Occ(s, i) = m
             /\ \A i \in 1..Len(s) : Occ(s, i) <= m

\* C3: compute_mode returns None when the maximum occurrence count is 1 (or
\* the sequence is empty); otherwise a value whose count is the maximum, and
\* among the values with that count the one that occurs first in the input.
C3_ModeIsFirstMostFrequent ==
    Returned("compute_mode") =>
        LET s == heap[values]
            most == MaxOcc(s)
        IN  IF most <= 1 THEN mode_value = None
            ELSE \E i \in 1..Len(s) :
                     /\ mode_value = s[i]
                     /\ Occ(s, i) = most
                     /\ \A j \in 1..(i - 1) : Occ(s, j) < most

\* C3 witness: two different values tie on the maximum count 2, and the mode
\* has been computed.
C3_Witness ==
    /\ Returned("compute_mode")
    /\ MaxOcc(heap[values]) = 2
    /\ \E i, j \in 1..Len(heap[values]) :
           /\ Occ(heap[values], i) = 2
           /\ Occ(heap[values], j) = 2
           /\ heap[values][i] # heap[values][j]

\* C4: for a non-empty non-decreasing sequence a of length n, compute_median
\* returns a[n div 2] (0-based) when n is odd and (a[n/2 - 1] + a[n/2]) / 2
\* when n is even; in a run a is merge_sort(values), the sorted valid values.
C4_MedianIsMiddleOfSorted ==
    Returned("compute_median") =>
        LET a == heap[sorted_values]
            n == Len(a)
        IN  /\ n > 0
            /\ NonDecreasing(a)
            /\ IsPermutation(a, heap[values])
            /\ n % 2 = 1 => median_value = a[(n \div 2) + 1]
            /\ n % 2 = 0 =>
                   median_value = DecDiv(DecAdd(a[n \div 2], a[(n \div 2) + 1]), DecInt(2))

\* C4 witness: the median of four values whose two middle elements differ has
\* been computed, and the file did not hold them in order.
C4_Witness ==
    /\ Returned("compute_median")
    /\ Len(heap[sorted_values]) = 4
    /\ heap[sorted_values][2] # heap[sorted_values][3]
    /\ heap[sorted_values] # heap[values]
    /\ \A i \in 1..4 : median_value # heap[sorted_values][i]

AllNone(r) ==
    /\ r.mean_value = None
    /\ r.median_value = None
    /\ r.mode_value = None
    /\ r.sd_value = None
    /\ r.variance_value = None

\* C5: when the lines yield no valid value the run completes normally with a
\* report in which mean, median, mode, standard deviation and variance are
\* all None and the valid-item count is 0; no sort, mean, variance or square
\* root is attempted on the empty dataset.
C5_EmptyDatasetReportsAbsent ==
    (HasRead /\ heap[values] = <<>>) =>
        /\ called = {}
        /\ sqrt_calls = <<>>
        /\ exc = ""
        /\ pc \in {"empty", "done"}
        /\ pc = "empty" => ENABLED EmptyReport
        /\ pc = "done" =>
               /\ rc = 0
               /\ report_data # None
               /\ AllNone(report_data)
               /\ report_data.valid_items = 0
               /\ report_data.total_items = Len(invalid_items)
               /\ report_data.invalid_items = FileOrderInvalid

\* C5 witness: the run over a file of blank and invalid lines only has ended
\* with its report.
C5_Witness ==
    /\ pc = "done"
    /\ rc = 0
    /\ heap[values] = <<>>
    /\ Len(invalid_items) >= 1
    /\ Len(lines) > Len(invalid_items)


\* C6: for every sequence of lines of an existing file, whatever text each
\* line holds, the run of main completes with a report: no exception raised
\* while parsing, sorting or computing a statistic escapes and aborts the run.
C6_NoExceptionAbortsTheRun ==
    (argc = 2 /\ exists) => (pc # "aborted" /\ exc = "")

RECURSIVE SkipDigits(_, _)
\* The first position from i on that holds no digit (Len(s) + 1 if none).
SkipDigits(s, i) ==
    IF i <= Len(s) /\ IsDigit(s[i]) THEN SkipDigits(s, i + 1) ELSE i

\* A standard decimal numeral: optional sign, digits, optional fractional
\* part, optional exponent.
IsDecimalNumeral(s) ==
    LET i0 == IF s # <<>> /\ s[1] \in {"+", "-"} THEN 2 ELSE 1
        i1 == SkipDigits(s, i0)
        i2 == IF i1 <= Len(s) /\ s[i1] = "." THEN SkipDigits(s, i1 + 1) ELSE i1
        hasE == i2 <= Len(s) /\ s[i2] \in {"e", "E"}
        i3 == IF hasE /\ i2 + 1 <= Len(s) /\ s[i2 + 1] \in {"+", "-"}
              THEN i2 + 2 ELSE i2 + 1
        i4 == IF hasE THEN SkipDigits(s, i3) ELSE i2
    IN  /\ i1 > i0
        /\ hasE => i4 > i3
        /\ i4 = Len(s) + 1

\* C7: try_parse_decimal accepts a token if and only if it is a standard
\* decimal numeral; every other token, the empty string included, is None,
\* and it never raises; so every element of values is a finite decimal
\* number.
C7_AcceptsExactlyDecimalNumerals ==
    HasRead =>
        /\ try_parse_decimal(<<>>) = None
        /\ \A i \in 1..Len(lines) :
               LET info == LineInfo(lines)[i]
               IN  /\ ~IsExc(info.number)
                   /\ NonBlank(info) => (Accepted(info) <=> IsDecimalNumeral(info.raw))
        /\ \A k \in 1..Len(heap[values]) : IsFin(heap[values][k])

\* C8: with n values, mean m and S the sum of (x - m)^2, compute_variance
\* returns S/(n-1) when the policy is sample variance and n > 1, and S/n when
\* n == 1 or the policy is population variance; compute_sd_population takes
\* the square root of S/n whichever the policy; so for n > 1 under the default
\* policy the variance and the square of the SD use different denominators.
C8_VarianceAndSdDenominators ==
    Returned("compute_variance") =>
        LET s == heap[values]
            n == Len(s)
            m == mean_value
            Sq[i \in 0..n] ==
                IF i = 0 THEN DecInt(0)
                ELSE DecAdd(Sq[i - 1], DecMul(DecSub(s[i], m), DecSub(s[i], m)))
            S == Sq[n]
            overN == DecDiv(S, DecInt(n))
            overN1 == DecDiv(S, DecInt(n - 1))
        IN  /\ n >= 1
            /\ variance_under(TRUE, s, m) = IF n > 1 THEN overN1 ELSE overN
            /\ variance_under(FALSE, s, m) = overN
            /\ variance_value = variance_under(USE_SAMPLE_VARIANCE, s, m)
            /\ sd_value = sqrt_decimal(overN)
            /\ (n > 1 /\ S # DecInt(0)) =>
                   /\ variance_value = overN1
                   /\ variance_value # overN

\* C8 witness: the variance of three values that are not all equal has been
\* computed.
C8_Witness ==
    /\ Returned("compute_variance")
    /\ Len(heap[values]) = 3
    /\ variance_value # DecInt(0)
    /\ sd_value # DecInt(0)

\* The call c = [arg, n] of sqrt_decimal on a value > 0 made n updates
\* guess = (guess + value/guess)/2 from the initial guess, each of which
\* changed the guess, and stopped at 80 updates or when one more update would
\* leave the guess unchanged; the guess it then holds is its result.
SqrtFollowsNewton(c) ==
    LET step(g) == DecDiv(DecAdd(g, DecDiv(c.arg, g)), DecInt(2))
        G[i \in 0..c.n] ==
            IF i = 0 THEN DecPow10(Adjusted(c.arg) \div 2) ELSE step(G[i - 1])
    IN  (IsFin(c.arg) /\ DecLt(DecInt(0), c.arg)) =>
            /\ c.n <= MaxNewton
            /\ sqrt_decimal(c.arg) = G[c.n]
            /\ \A i \in 1..c.n : G[i] # G[i - 1]
            /\ c.n = MaxNewton \/ step(G[c.n]) = G[c.n]

\* C9: sqrt_decimal raises ValueError for a value < 0, returns 0 for 0, and
\* for a value > 0 makes at most 80 Newton-Raphson updates, stopping as soon
\* as an update leaves the guess unchanged, and returns its guess; in a run it
\* is only ever called on the population variance S/n, which is >= 0, so the
\* ValueError is never reached from main.
C9_SqrtOnlyOnNonNegativeVariance ==
    /\ sqrt_decimal(DecInt(-1)) = Raise("ValueError")
    /\ sqrt_decimal(DecInt(0)) = DecInt(0)
    /\ exc # "ValueError"
    /\ \A k \in 1..Len(sqrt_calls) :
           /\ SqrtFollowsNewton(sqrt_calls[k])
           /\ sqrt_calls[k].arg = variance_pop(heap[values], mean_value)
           /\ IsFin(sqrt_calls[k].arg)
           /\ DecLe(DecInt(0), sqrt_calls[k].arg)

\* C10: merge_sort leaves its input unmodified and returns a new list (also
\* when len(values) <= 1): after main's call values still holds the valid
\* values in file order, so mean, mode, SD and variance see the original
\* order and only the median sees the sorted copy.
C10_SortLeavesValuesInFileOrder ==
    Returned("merge_sort") =>
        LET inOrder == FileOrderValues
        IN  /\ sorted_values # values
            /\ heap[values] = inOrder
            /\ Returned("compute_mean") => mean_value = compute_mean(inOrder)
            /\ Returned("compute_median") =>
                   median_value = compute_median(heap[sorted_values])
            /\ Returned("compute_mode") => mode_value = compute_mode(inOrder)
            /\ Returned("compute_sd_population") =>
                   sd_value = compute_sd_population(inOrder, mean_value)
            /\ Returned("compute_variance") =>
                   variance_value = compute_variance(inOrder, mean_value)

\* C10 witness: the mode of values whose sorted order would give another mode
\* has been computed after the sort.
C10_Witness ==
    /\ Returned("compute_mode")
    /\ heap[sorted_values] # heap[values]
    /\ mode_value # None
    /\ compute_mode(heap[sorted_values]) # mode_value


-----------------------------------------------------------------------------
(* Properties of convertNumbers.py *)

IsBaseDigit(ch, base) == \E d \in 1..base : HEX_DIGITS[d] = ch
BaseDigitValue(ch) == (CHOOSE d \in 1..16 : HEX_DIGITS[d] = ch) - 1
AllBaseDigits(s, base) == \A i \in 1..Len(s) : IsBaseDigit(s[i], base)

RECURSIVE BaseValue(_, _, _)
\* The integer the digit string s denotes in the given base, added to
\* acc * base^Len(s).
BaseValue(s, base, acc) ==
    IF s = <<>> THEN acc
    ELSE BaseValue(Tail(s), base, IntTimesPlus(acc, base, BaseDigitValue(Head(s))))

\* s is the numeral of value >= 0 in the given base, without leading zeros.
IsNumeralOf(s, base, value) ==
    /\ s # <<>>
    /\ AllBaseDigits(s, base)
    /\ (Len(s) > 1 => s[1] # "0")
    /\ BaseValue(s, base, IntOf(0)) = value

\* The rows of converted integers written so far.
ConvertedRows == SelectSeq(outfile, LAMBDA r : r.kind = "row")

\* C11: for every negative integer safe_parse_int produces, int_to_hex
\* returns exactly 8 hexadecimal digits whose base-16 value is 2^32 + value;
\* for every value >= 0 it returns the base-16 digits of value with no
\* leading zeros ("0" for 0).
C11_HexIsTwosComplementOn32Bits ==
    \A k \in 1..Len(ConvertedRows) :
        LET value == ConvertedRows[k].number
            hex_str == ConvertedRows[k].hex_str
        IN  IF IsNegative(value)
            THEN /\ Len(hex_str) = 8
                 /\ AllBaseDigits(hex_str, 16)
                 /\ BaseValue(hex_str, 16, IntOf(0)) = IntAdd(ShiftLeftOne(32), value)
            ELSE IsNumeralOf(hex_str, 16, value)

\* C12: for every negative integer, int_to_binary returns a bit string of
\* some length w that starts with "1", reads as value as a w-bit two's
\* complement number (its unsigned reading is 2^w + value), and no width
\* below w can represent value (value < -2^(w-2), the least number of w - 1
\* bits); for every value >= 0 it returns the base-2 digits of value with no
\* leading zeros.
C12_BinaryIsMinimalTwosComplement ==
    \A k \in 1..Len(ConvertedRows) :
        LET value == ConvertedRows[k].number
            bin_str == ConvertedRows[k].bin_str
            w == Len(bin_str)
        IN  IF IsNegative(value)
            THEN /\ w >= 1
                 /\ AllBaseDigits(bin_str, 2)
                 /\ bin_str[1] = "1"
                 /\ BaseValue(bin_str, 2, IntOf(0)) = IntAdd(ShiftLeftOne(w), value)
                 /\ (w >= 2 => IsNegative(IntAdd(value, ShiftLeftOne(w - 2))))
            ELSE IsNumeralOf(bin_str, 2, value)

-----------------------------------------------------------------------------
(* Properties of wordCount.py *)

\* No word occurs in two pairs of the list.
DistinctWords(list) ==
    \A i, j \in 1..Len(list) : i # j => list[i][1] # list[j][1]

\* Every pair stands before the next one: its count is higher, or the counts
\* are equal and its word is the lesser.
OrderedByCountThenWord(list) ==
    \A i \in 1..(Len(list) - 1) :
        \/ list[i][2] > list[i + 1][2]
        \/ (list[i][2] = list[i + 1][2] /\ StrLess(list[i][1], list[i + 1][1]))

RECURSIVE SumOfCounts(_)
SumOfCounts(list) ==
    IF list = <<>> THEN 0 ELSE Head(list)[2] + SumOfCounts(Tail(list))

\* count_frequencies has returned.
Counted == wc_pc \in {"build", "sort", "write"} \/ (wc_pc = "done" /\ wc_rc = 0)

\* insertion_sort_by_count_desc has returned.
ItemsSorted == wc_pc = "write" \/ (wc_pc = "done" /\ wc_rc = 0)

\* C13: the pairs handed to insertion_sort_by_count_desc are those of the
\* frequency map, whose words are distinct; when it returns, the list items
\* names is a permutation of those pairs in which every pair has a higher
\* count than the next one, or the same count and a lesser word.  After
\* count_frequencies, total_tokens = valid_words + invalid_tokens and the
\* counts of the map sum to valid_words.
C13_InsertionSortOrdersItems ==
    /\ Counted =>
           /\ total_tokens = valid_words + invalid_tokens
           /\ SumOfCounts(frequencies) = valid_words
           /\ DistinctWords(frequencies)
    /\ wc_pc = "sort" =>
           /\ Len(items) = Len(frequencies)
           /\ \A i \in 1..Len(items) : items[i] = frequencies[i]
    /\ ItemsSorted =>
           /\ IsPermutation(items, frequencies)
           /\ OrderedByCountThenWord(items)

\* A sort of three or more pairs that moves a pair, with two pairs of equal
\* counts and two of different counts next to each other in the result.
C13_Witness ==
    /\ wc_pc = "write"
    /\ Len(items) >= 3
    /\ \E i \in 1..Len(items) : items[i] # frequencies[i]
    /\ \E i \in 1..(Len(items) - 1) : items[i][2] = items[i + 1][2]
    /\ \E i \in 1..(Len(items) - 1) : items[i][2] > items[i + 1][2]

=============================================================================
